---- MODULE Spec2Model ----
(***************************************************************************)
(* Model of scheduler/admin/old_task_models.py: the admin controller       *)
(* TaskAdmin of the task models CronTask, ScheduledTask and RepeatableTask. *)
(*                                                                         *)
(* Storage (the ORM) and the external queue are the state.  A handler is   *)
(* one atomic step (requests are handled one at a time): it loads the      *)
(* selected records as in-memory instances, runs its loop, which yields    *)
(* the sequence of statements executed on those instances, and reports a   *)
(* message.  The statements that call collaborators outside this file      *)
(* (unschedule, enqueue_to_run, save, migrate, the ORM's delete) take      *)
(* their effect through Apply.                                             *)
(***************************************************************************)
EXTENDS Integers, Sequences, FiniteSets, TLC

\* ------------------------------------------------------------------ bounds
MaxTasks == 2
MaxRuns == 2
MaxNew == 2
MaxExecutions == 3
MaxPerPage == 2
MaxPage == 3

Ids == 1..MaxTasks

\* Task.name of each record (a stored field, never changed by this file).
TaskNames == <<"job1", "job2", "job3", "job4">>

name(id) == TaskNames[id]

\* new_task_id = None
None == 0

\* django.contrib.messages levels used by the handlers
WARNING == "WARNING"

INFO == "INFO"

VARIABLES
    tasks,        \* ids of the task records in storage
    enabled,      \* storage: the enabled flag of each record
    new_task_id,  \* storage: the successor reference of each record (None = 0)
    new_tasks,    \* storage: number of successor records under the newer model
    sched,        \* external queue: the record has a schedule entry
    runs,         \* external queue: immediate runs enqueued for the record
    mem,          \* enabled flag of the in-memory instances of the last handler
    last,         \* the last handler, the queryset it was applied to, and whether
                  \* that repeats the handler and queryset of the step before
    log,          \* the statements the last handler executed, in order
    msg,          \* the message the last handler reported (message_user)
    view          \* the result of the last view computation

store == <<tasks, enabled, new_task_id, new_tasks, sched, runs>>

vars == <<tasks, enabled, new_task_id, new_tasks, sched, runs, mem, last, log, msg, view>>

\* ------------------------------------------------------------- sequences
Range(s) == {s[i] : i \in 1..Len(s)}

\* A queryset: the selected records, each once, in the order of the query.
Querysets(S) ==
    {q \in UNION {[1..n -> S] : n \in 0..Cardinality(S)} :
        \A i, j \in 1..Len(q) : i # j => q[i] # q[j]}

RECURSIVE Flatten(_)
Flatten(ss) == IF ss = <<>> THEN <<>> ELSE Head(ss) \o Flatten(Tail(ss))

\* for obj in queryset: body(obj)
ForEach(queryset, body(_)) == Flatten([i \in 1..Len(queryset) |-> body(queryset[i])])

Stmt(e, id) == [ev |-> e, id |-> id]

Count(e, id) == Cardinality({i \in 1..Len(log) : log[i] = Stmt(e, id)})

\* ------------------------------------------- collaborators outside the file
\* The instances a handler works on, loaded from storage.
Load ==
    [tasks |-> tasks, enabled |-> enabled, new_task_id |-> new_task_id,
     new_tasks |-> new_tasks, sched |-> sched, runs |-> runs, mem |-> enabled]

\* unschedule(task): remove the task's pending trigger from the external queue.
unschedule(st, id) == [st EXCEPT !.sched[id] = FALSE]

\* enqueue_to_run(task): submit the task for one immediate execution.
enqueue_to_run(st, id) == [st EXCEPT !.runs[id] = @ + 1]

\* save(): persist the instance; persistence schedules an enabled task.
save(st, id) ==
    [st EXCEPT !.enabled[id] = st.mem[id],
               !.sched[id] = IF st.mem[id] THEN TRUE ELSE @]

\* migrate(task) -> new_task: create a successor record and link it back.
migrate(st, id) ==
    [st EXCEPT !.new_tasks = @ + 1, !.new_task_id[id] = st.new_tasks + 1]

\* The ORM's delete: the record leaves storage.
delete(st, id) ==
    [st EXCEPT !.tasks = @ \ {id}, !.enabled[id] = FALSE,
               !.new_task_id[id] = None, !.mem[id] = FALSE]

Apply(st, s) ==
    CASE s.ev = "enabled=False" -> [st EXCEPT !.mem[s.id] = FALSE]
      [] s.ev = "enabled=True" -> [st EXCEPT !.mem[s.id] = TRUE]
      [] s.ev = "unschedule" -> unschedule(st, s.id)
      [] s.ev = "enqueue_to_run" -> enqueue_to_run(st, s.id)
      [] s.ev = "save" -> save(st, s.id)
      [] s.ev = "migrate" -> migrate(st, s.id)
      [] s.ev = "delete" -> delete(st, s.id)

RECURSIVE Run(_, _)
Run(st, stmts) == IF stmts = <<>> THEN st ELSE Run(Apply(st, Head(stmts)), Tail(stmts))

\* The state after a handler has executed stmts on the loaded instances.
Execute(stmts) ==
    LET st == Run(Load, stmts)
    IN  /\ tasks' = st.tasks
        /\ enabled' = st.enabled
        /\ new_task_id' = st.new_task_id
        /\ new_tasks' = st.new_tasks
        /\ sched' = st.sched
        /\ runs' = st.runs
        /\ mem' = st.mem
        /\ log' = stmts

\* ModelAdmin.message_user(request, message, level=messages.INFO)
message_user(message, level) == [level |-> level, text |-> message]

NoMessage == [level |-> "", text |-> <<>>]

\* --------------------------------------------------------- message helpers
\* Faulty variant: no singular form.
get_message_bit_plural(rows_updated) == ToString(rows_updated) \o " tasks were"

get_message_bit(rows_updated) ==
    IF rows_updated = 1 THEN "1 task was" ELSE ToString(rows_updated) \o " tasks were"

\* level = messages.WARNING if not rows_updated else messages.INFO
level_of(rows_updated) == IF rows_updated = 0 THEN WARNING ELSE INFO

\* ', '.join(task_names)
RECURSIVE join(_)
join(names) ==
    IF names = <<>> THEN <<>>
    ELSE IF Len(names) = 1 THEN names
    ELSE <<Head(names), ", ">> \o join(Tail(names))

\* ---------------------------------------------------------------- Init
NoView == [op |-> "none"]

Init ==
    /\ tasks \in SUBSET Ids
    /\ enabled \in [Ids -> BOOLEAN]
    /\ \A id \in Ids : enabled[id] => id \in tasks
    /\ sched \in [Ids -> BOOLEAN]
    /\ \A id \in Ids : sched[id] => enabled[id]
    /\ runs = [id \in Ids |-> 0]
    /\ new_task_id = [id \in Ids |-> None]
    /\ new_tasks = 0
    /\ mem = enabled
    /\ last = [op |-> "none", sel |-> <<>>, again |-> FALSE]
    /\ log = <<>>
    /\ msg = NoMessage
    /\ view = NoView

\* What every handler leaves behind besides the effect of its statements.
Report(op, queryset, message) ==
    /\ last' = [op |-> op, sel |-> queryset,
                again |-> last.op = op /\ last.sel = queryset]
    /\ msg' = message
    /\ UNCHANGED view

\* ------------------------------------------------------------ deletion
\* Faulty variant: removes the records without unscheduling them.
delete_queryset_no_unschedule(queryset) ==
    ForEach(queryset, LAMBDA job : <<Stmt("delete", job)>>)

delete_queryset_stmts(queryset) ==
    ForEach(queryset, LAMBDA job : <<Stmt("unschedule", job)>>)
        \o ForEach(queryset, LAMBDA job : <<Stmt("delete", job)>>)

delete_queryset(queryset) ==
    /\ Execute(delete_queryset_stmts(queryset))
    /\ Report("delete_queryset", queryset, NoMessage)

delete_model_stmts(obj) == <<Stmt("unschedule", obj), Stmt("delete", obj)>>

delete_model(obj) ==
    /\ obj \in tasks
    /\ Execute(delete_model_stmts(obj))
    /\ Report("delete_model", <<obj>>, NoMessage)

\* ------------------------------------------------------- migrate_selected
migrate_body(obj) == <<Stmt("migrate", obj)>>

\* Faulty variant: always informational.
migrate_level_info(rows_updated) == INFO

migrate_level(rows_updated) == IF rows_updated = 0 THEN WARNING ELSE INFO

migrate_selected(queryset) ==
    LET rows_updated == Len(queryset)
    IN  /\ new_tasks + Len(queryset) <= MaxNew
        /\ Execute(ForEach(queryset, migrate_body))
        /\ Report("migrate_selected", queryset,
                  message_user(<<get_message_bit(rows_updated)
                                   \o " successfully migrated to new model.">>,
                               migrate_level(rows_updated)))

\* ------------------------------------------------------- disable_selected
\* queryset.filter(enabled=True)
disable_targets(queryset) == SelectSeq(queryset, LAMBDA id : enabled[id])

\* Faulty variant: clears the flag and leaves the queue alone.
disable_body_no_unschedule(obj) == <<Stmt("enabled=False", obj)>>

disable_body(obj) == <<Stmt("enabled=False", obj), Stmt("unschedule", obj)>>

\* for obj in queryset.filter(enabled=True).iterator(): ...
disable_loop(queryset) == ForEach(disable_targets(queryset), disable_body)

disable_selected(queryset) ==
    LET rows_updated == Len(disable_targets(queryset))
    IN  /\ Execute(disable_loop(queryset))
        /\ Report("disable_selected", queryset,
                  message_user(<<get_message_bit(rows_updated)
                                   \o " successfully disabled and unscheduled.">>,
                               level_of(rows_updated)))

\* -------------------------------------------------------- enable_selected
\* Faulty variant: no filter on the enabled flag.
enable_targets_all(queryset) == queryset

\* queryset.filter(enabled=False)
enable_targets(queryset) == SelectSeq(queryset, LAMBDA id : ~enabled[id])

enable_body(obj) == <<Stmt("enabled=True", obj), Stmt("save", obj)>>

\* Faulty variant: flips the flag of every selected record and saves it.
enable_loop_toggle(queryset) ==
    ForEach(queryset,
            LAMBDA obj : <<Stmt(IF enabled[obj] THEN "enabled=False" ELSE "enabled=True", obj),
                           Stmt("save", obj)>>)

\* for obj in queryset.filter(enabled=False).iterator(): ...
enable_loop(queryset) == ForEach(enable_targets(queryset), enable_body)

enable_selected(queryset) ==
    LET rows_updated == Len(enable_targets(queryset))
    IN  /\ Execute(enable_loop(queryset))
        /\ Report("enable_selected", queryset,
                  message_user(<<get_message_bit(rows_updated)
                                   \o " successfully enabled and scheduled.">>,
                               level_of(rows_updated)))

\* -------------------------------------------------------- enqueue_job_now
\* Faulty variant: only the enabled records are enqueued.
enqueue_targets_enabled(queryset) == SelectSeq(queryset, LAMBDA id : enabled[id])

\* for task in queryset
enqueue_targets(queryset) == queryset

enqueue_body(task) == <<Stmt("enqueue_to_run", task)>>

\* task_names.append(task.name), once per iteration
task_names(targets) == [i \in 1..Len(targets) |-> name(targets[i])]

enqueue_message(names) ==
    message_user(<<"The following jobs have been enqueued: ">> \o join(names), INFO)

enqueue_job_now(queryset) ==
    LET targets == enqueue_targets(queryset)
    IN  /\ \A id \in Range(queryset) : runs[id] < MaxRuns
        /\ Execute(ForEach(targets, enqueue_body))
        /\ Report("enqueue_job_now", queryset, enqueue_message(task_names(targets)))

\* ------------------------------------------------------------------ Spec
Next ==
    \/ \E queryset \in Querysets(tasks) : enqueue_job_now(queryset)
    \/ \E queryset \in Querysets(tasks) : enable_selected(queryset)
    \/ \E queryset \in Querysets(tasks) : disable_selected(queryset)
    \/ \E queryset \in Querysets(tasks) : migrate_selected(queryset)
    \/ \E obj \in Ids : delete_model(obj)
    \/ \E queryset \in Querysets(tasks) : delete_queryset(queryset)

Spec == Init /\ [][Next]_vars

\* Disable, enable and delete alone: the enabled flag and the schedule entries.
NextToggle ==
    \/ \E queryset \in Querysets(tasks) : delete_queryset(queryset)
    \/ \E obj \in Ids : delete_model(obj)
    \/ \E queryset \in Querysets(tasks) : disable_selected(queryset)
    \/ \E queryset \in Querysets(tasks) : enable_selected(queryset)

SpecToggle == Init /\ [][NextToggle]_vars

\* enqueue_job_now alone, from every stored state.
NextEnqueue == \E queryset \in Querysets(tasks) : enqueue_job_now(queryset)

SpecEnqueue == Init /\ [][NextEnqueue]_vars

\* migrate_selected alone, from every stored state.
NextMigrate == \E queryset \in Querysets(tasks) : migrate_selected(queryset)

SpecMigrate == Init /\ [][NextMigrate]_vars

\* One request from any stored state, then the same request once more: the
\* same handler applied to the same selection.
NextRepeat ==
    /\ ~last.again
    /\ Next
    /\ last.op = "none" \/ last'.again

SpecRepeat == Init /\ [][NextRepeat]_vars

\* ----------------------------------------------------------------- views
\* A field row of a fieldset: a field name alone on its row is a row of one.
Row(field) == <<field>>

LIST_DISPLAY_EXTRA ==
    [CronTask |-> <<"cron_string", "next_run", "successful_runs", "last_successful_run",
                    "failed_runs", "last_failed_run">>,
     ScheduledTask |-> <<"scheduled_time">>,
     RepeatableTask |-> <<"scheduled_time", "interval_display", "successful_runs",
                          "last_successful_run", "failed_runs", "last_failed_run">>]

FIELDSET_EXTRA ==
    [CronTask |-> <<Row("cron_string"), Row("timeout"), Row("result_ttl"),
                    <<"successful_runs", "last_successful_run">>,
                    <<"failed_runs", "last_failed_run">>>>,
     ScheduledTask |-> <<Row("scheduled_time"), Row("timeout"), Row("result_ttl")>>,
     RepeatableTask |-> <<Row("scheduled_time"), <<"interval", "interval_unit">>,
                          Row("repeat"), Row("timeout"), Row("result_ttl"),
                          <<"successful_runs", "last_successful_run">>,
                          <<"failed_runs", "last_failed_run">>>>]

\* TaskAdmin.list_display
list_display ==
    <<"enabled", "name", "link_new_task", "job_id", "function_string", "is_scheduled", "queue">>

\* TaskAdmin.fieldsets
fieldsets ==
    <<[title |-> "None",
       fields |-> <<Row("name"), Row("callable"), Row("enabled"), Row("at_front")>>],
      [title |-> "RQ Settings", fields |-> <<Row("queue"), Row("job_id")>>]>>

\* self.model.__name__ of the models an admin may be bound to
ModelNames == {"CronTask", "ScheduledTask", "RepeatableTask", "BaseTask", "Task"}

Raise(error) == [raised |-> error, value |-> <<>>]

Return(value) == [raised |-> "", value |-> value]

\* Faulty variant: the variant's columns come before the base columns.
get_list_display_extra_first(model) ==
    IF model \notin DOMAIN LIST_DISPLAY_EXTRA
    THEN Raise("ValueError")
    ELSE Return(LIST_DISPLAY_EXTRA[model] \o list_display)

get_list_display(model) ==
    IF model \notin DOMAIN LIST_DISPLAY_EXTRA
    THEN Raise("ValueError")
    ELSE Return(list_display \o LIST_DISPLAY_EXTRA[model])

get_fieldsets(model) ==
    IF model \notin DOMAIN FIELDSET_EXTRA
    THEN Raise("ValueError")
    ELSE Return(fieldsets \o <<[title |-> "Scheduling", fields |-> FIELDSET_EXTRA[model]]>>)

\* Faulty variant: no except clause, a connection error is left unhandled.
fetch_executions_uncaught(fetch, n) ==
    CASE fetch = "ok" -> [raised |-> "", warnings |-> 0, count |-> n]
      [] OTHER -> [raised |-> fetch, warnings |-> 0, count |-> 0]

\* The try/except around get_job_executions_for_task: what the fetch did
\* ("ok" with n executions, "ConnectionError", or another "Error") becomes
\* the execution list, the warnings logged and the error left unhandled.
fetch_executions(fetch, n) ==
    CASE fetch = "ok" -> [raised |-> "", warnings |-> 0, count |-> n]
      [] fetch = "ConnectionError" -> [raised |-> "", warnings |-> 1, count |-> 0]
      [] OTHER -> [raised |-> fetch, warnings |-> 0, count |-> 0]

\* Paginator.num_pages (allow_empty_first_page, no orphans)
num_pages(count, per_page) ==
    IF count = 0 THEN 1 ELSE (count + per_page - 1) \div per_page

\* Paginator.get_page: a page number out of range gives the last page
get_page(number, count, per_page) ==
    IF number < 1 \/ number > num_pages(count, per_page)
    THEN num_pages(count, per_page)
    ELSE number

\* len(page_obj): the executions on the page
page_len(number, count, per_page) ==
    IF number * per_page >= count THEN count - (number - 1) * per_page ELSE per_page

pagination_required(count, per_page) == count > per_page

Failed(object_id, fetch, error) ==
    [op |-> "change_view", object_id |-> object_id, fetch |-> fetch, raised |-> error,
     rendered |-> FALSE, warnings |-> 0, count |-> 0, executions |-> 0, number |-> 0,
     pagination_required |-> FALSE, page_var |-> ""]

\* change_view(request, object_id): per_page is SCHEDULER_CONFIG.EXECUTIONS_IN_PAGE,
\* p the request's page parameter.
change_view_result(object_id, fetch, n, p, per_page) ==
    IF object_id \notin tasks
    THEN Failed(object_id, "not called", "AttributeError")
    ELSE LET got == fetch_executions(fetch, n)
             number == get_page(p, got.count, per_page)
         IN  IF got.raised # ""
             THEN Failed(object_id, fetch, got.raised)
             ELSE [op |-> "change_view", object_id |-> object_id, fetch |-> fetch,
                   raised |-> "", rendered |-> TRUE, warnings |-> got.warnings,
                   count |-> got.count,
                   executions |-> page_len(number, got.count, per_page),
                   number |-> number,
                   pagination_required |-> pagination_required(got.count, per_page),
                   page_var |-> "p"]

Fetches == {"ok", "ConnectionError", "Error"}

change_view(object_id, fetch, n, p, per_page) ==
    /\ view' = change_view_result(object_id, fetch, n, p, per_page)
    /\ UNCHANGED <<store, mem, last, log, msg>>

list_display_view(model) ==
    /\ view' = [op |-> "get_list_display", model |-> model, result |-> get_list_display(model)]
    /\ UNCHANGED <<store, mem, last, log, msg>>

fieldsets_view(model) ==
    /\ view' = [op |-> "get_fieldsets", model |-> model, result |-> get_fieldsets(model)]
    /\ UNCHANGED <<store, mem, last, log, msg>>

NextViews ==
    \/ \E object_id \in Ids, fetch \in Fetches, n \in 0..MaxExecutions,
          p \in 0..MaxPage, per_page \in 1..MaxPerPage :
            change_view(object_id, fetch, n, p, per_page)
    \/ \E model \in ModelNames : list_display_view(model)
    \/ \E model \in ModelNames : fieldsets_view(model)

SpecViews == Init /\ [][NextViews]_vars

\* ================================================================ claims
Selected(l) == Range(l.sel)

CountHandlers == {"migrate_selected", "disable_selected", "enable_selected"}

BulkHandlers == CountHandlers \cup {"enqueue_job_now"}

\* The summary "N task(s) were <verb>" for a count n.
Summary(n, verb) ==
    IF n = 1 THEN "1 task was" \o verb ELSE ToString(n) \o " tasks were" \o verb

SummaryLevel(n) == IF n = 0 THEN WARNING ELSE INFO

Verb(op) ==
    CASE op = "migrate_selected" -> " successfully migrated to new model."
      [] op = "disable_selected" -> " successfully disabled and unscheduled."
      [] op = "enable_selected" -> " successfully enabled and scheduled."

StartsWith(str, prefix) == Len(str) >= Len(prefix) /\ SubSeq(str, 1, Len(prefix)) = prefix

\* The records of the selection that a handler's loop called e on.
Called(e) == {id \in Ids : Count(e, id) > 0}

\* C1: disable_selected on a selection with k enabled and m disabled records
\* changes exactly the k enabled records to disabled in storage, calls
\* unschedule exactly once on each of them and on no other record, reports k
\* in its message and leaves the m disabled records untouched.
C1_DisableSelected ==
    [][last'.op = "disable_selected" =>
        LET k == Cardinality({id \in Selected(last') : enabled[id]})
        IN  /\ \A id \in Ids :
                IF id \in Selected(last') /\ enabled[id]
                THEN ~enabled'[id] /\ (Count("unschedule", id))' = 1
                ELSE /\ enabled'[id] = enabled[id]
                     /\ sched'[id] = sched[id]
                     /\ (Count("unschedule", id))' = 0
            /\ msg'.text = <<Summary(k, Verb("disable_selected"))>>]_vars

\* C2: a task record that is disabled, in storage or as the instance a handler
\* has just disabled, has no schedule entry in the external queue, whatever
\* bulk actions and deletions have run.
C2_DisabledUnscheduled ==
    \A id \in tasks : (~enabled[id] \/ ~mem[id]) => ~sched[id]

C2_Witness ==
    /\ last.op = "disable_selected"
    /\ \E id \in Selected(last) :
        id \in tasks /\ Count("unschedule", id) = 1 /\ ~mem[id] /\ ~sched[id]
    /\ \E id \in tasks : ~enabled[id] /\ runs[id] > 0

\* C3: a deletion (delete_model or delete_queryset) calls unschedule on every
\* record before it removes that record, and afterwards the external queue
\* holds no schedule entry for a record that is not in storage.
C3_UnscheduleBeforeDelete ==
    /\ \A j \in 1..Len(log) :
        log[j].ev = "delete" =>
            \E i \in 1..(j - 1) : log[i] = Stmt("unschedule", log[j].id)
    /\ \A id \in Ids \ tasks : ~sched[id]

C3_Witness ==
    /\ last.op = "delete_queryset"
    /\ Len(last.sel) = 2
    /\ Selected(last) \cap tasks = {}
    /\ \A id \in Selected(last) : Count("unschedule", id) = 1 /\ Count("delete", id) = 1

\* C4: enable_selected sets exactly the selected records that were disabled to
\* enabled and saves them; records that were already enabled are neither
\* modified nor saved nor counted, and the handler calls neither unschedule
\* nor enqueue_to_run.
C4_EnableSelected ==
    [][last'.op = "enable_selected" =>
        LET flipped == {id \in Selected(last') : ~enabled[id]}
        IN  /\ \A id \in Ids :
                IF id \in flipped
                THEN /\ enabled'[id]
                     /\ (Count("enabled=True", id))' = 1
                     /\ (Count("save", id))' = 1
                ELSE /\ enabled'[id] = enabled[id]
                     /\ sched'[id] = sched[id]
                     /\ (Count("enabled=True", id))' = 0
                     /\ (Count("save", id))' = 0
            /\ (Called("unschedule"))' = {}
            /\ (Called("enqueue_to_run"))' = {}
            /\ (Called("enabled=False"))' = {}
            /\ msg'.text = <<Summary(Cardinality(flipped), Verb("enable_selected"))>>]_vars

C4_Witness ==
    /\ last.op = "enable_selected"
    /\ \E a, b \in Selected(last) : Count("save", a) = 1 /\ Count("save", b) = 0
    /\ msg.text = <<"1 task was successfully enabled and scheduled.">>

\* C5: enqueue_job_now calls enqueue_to_run exactly once for every selected
\* record, enabled or not, lists the names of the selected records in
\* selection order in its message, and changes no enabled flag.
C5_EnqueueJobNow ==
    [][last'.op = "enqueue_job_now" =>
        LET q == last'.sel
        IN  /\ \A id \in Ids :
                LET n == IF id \in Range(q) THEN 1 ELSE 0
                IN  (Count("enqueue_to_run", id))' = n /\ runs'[id] = runs[id] + n
            /\ enabled' = enabled
            /\ Len(msg'.text) = (IF q = <<>> THEN 1 ELSE 2 * Len(q))
            /\ \A i \in 1..Len(q) : msg'.text[2 * i] = name(q[i])
            /\ \A i \in 1..(Len(q) - 1) : msg'.text[2 * i + 1] = ", "]_vars

C5_Witness ==
    /\ last.op = "enqueue_job_now"
    /\ Len(last.sel) = 2
    /\ last.sel[1] > last.sel[2]
    /\ \E a, b \in Selected(last) : enabled[a] /\ ~enabled[b] /\ runs[a] = 1 /\ runs[b] = 1
    /\ msg.text = <<"The following jobs have been enqueued: ", "job2", ", ", "job1">>

\* C6 as stated: each of the four bulk action handlers reports a count
\* "N task(s) were <verb>", at warning level when the count is zero and at
\* informational level otherwise.
C6_AllHandlersCount ==
    last.op \in BulkHandlers =>
        \E n \in 0..MaxTasks :
            /\ Len(msg.text) = 1
            /\ StartsWith(msg.text[1], Summary(n, ""))
            /\ msg.level = SummaryLevel(n)

\* C6 as amended: migrate_selected, disable_selected and enable_selected report
\* the count of the records their loop handled as "1 task was <verb>" or
\* "N tasks were <verb>", at warning level when the count is zero and at
\* informational level otherwise; enqueue_job_now reports "The following jobs
\* have been enqueued: " and the names, at informational level always.
C6_CountHandlers ==
    /\ last.op \in CountHandlers =>
        LET n == Cardinality(Called(CASE last.op = "migrate_selected" -> "migrate"
                                      [] last.op = "disable_selected" -> "unschedule"
                                      [] last.op = "enable_selected" -> "save"))
        IN  msg = [level |-> SummaryLevel(n), text |-> <<Summary(n, Verb(last.op))>>]
    /\ last.op = "enqueue_job_now" =>
        /\ msg.level = INFO
        /\ msg.text[1] = "The following jobs have been enqueued: "

C6_Witness ==
    /\ last.op = "disable_selected"
    /\ Len(last.sel) = 2
    /\ msg = [level |-> INFO, text |-> <<"1 task was successfully disabled and unscheduled.">>]

\* C7: migrate_selected calls the migration routine once for every selected
\* record, enabled or not; an empty selection gives a warning-level message
\* with count 0, a non-empty one an informational message with the number of
\* selected records, and every selected record then has a successor reference.
C7_MigrateSelected ==
    last.op = "migrate_selected" =>
        /\ \A id \in Ids :
            Count("migrate", id) = (IF id \in Selected(last) THEN 1 ELSE 0)
        /\ \A id \in Selected(last) : new_task_id[id] # None
        /\ msg.text = <<Summary(Len(last.sel), Verb("migrate_selected"))>>
        /\ msg.level = (IF last.sel = <<>> THEN WARNING ELSE INFO)

C7_Witness ==
    /\ last.op = "migrate_selected"
    /\ \E a, b \in Selected(last) :
        enabled[a] /\ ~enabled[b] /\ new_task_id[a] # None /\ new_task_id[b] # None
    /\ msg = [level |-> INFO, text |-> <<"2 tasks were successfully migrated to new model.">>]

\* C8: when the execution-history fetch raises a connection error in
\* change_view, nothing is raised out of change_view, one warning is logged,
\* and the page is rendered with no executions and pagination_required false.
C8_ConnectionError ==
    (view.op = "change_view" /\ view.fetch = "ConnectionError") =>
        /\ view.raised = ""
        /\ view.rendered
        /\ view.warnings = 1
        /\ view.count = 0
        /\ view.executions = 0
        /\ ~view.pagination_required

C8_Witness ==
    /\ view.op = "change_view"
    /\ view.fetch = "ConnectionError"
    /\ view.rendered
    /\ view.executions = 0

\* The columns and the field rows of each variant, base first.
Columns(model) ==
    <<"enabled", "name", "link_new_task", "job_id", "function_string", "is_scheduled", "queue">>
    \o CASE model = "CronTask" ->
              <<"cron_string", "next_run", "successful_runs", "last_successful_run",
                "failed_runs", "last_failed_run">>
         [] model = "ScheduledTask" -> <<"scheduled_time">>
         [] model = "RepeatableTask" ->
              <<"scheduled_time", "interval_display", "successful_runs",
                "last_successful_run", "failed_runs", "last_failed_run">>

SchedulingFields(model) ==
    CASE model = "CronTask" ->
           <<<<"cron_string">>, <<"timeout">>, <<"result_ttl">>,
             <<"successful_runs", "last_successful_run">>,
             <<"failed_runs", "last_failed_run">>>>
      [] model = "ScheduledTask" -> <<<<"scheduled_time">>, <<"timeout">>, <<"result_ttl">>>>
      [] model = "RepeatableTask" ->
           <<<<"scheduled_time">>, <<"interval", "interval_unit">>, <<"repeat">>,
             <<"timeout">>, <<"result_ttl">>,
             <<"successful_runs", "last_successful_run">>,
             <<"failed_runs", "last_failed_run">>>>

Variants == {"CronTask", "ScheduledTask", "RepeatableTask"}

\* C9: for each of CronTask, ScheduledTask and RepeatableTask, get_list_display
\* returns the base columns followed by the variant's columns and
\* get_fieldsets the two base groups followed by the Scheduling group of the
\* variant's fields; for any other model name both raise an error.
C9_VariantDeterminesView ==
    /\ view.op = "get_list_display" =>
        IF view.model \in Variants
        THEN view.result = [raised |-> "", value |-> Columns(view.model)]
        ELSE view.result.raised = "ValueError"
    /\ view.op = "get_fieldsets" =>
        IF view.model \in Variants
        THEN /\ view.result.raised = ""
             /\ Len(view.result.value) = 3
             /\ view.result.value[1].title = "None"
             /\ view.result.value[1].fields =
                    <<<<"name">>, <<"callable">>, <<"enabled">>, <<"at_front">>>>
             /\ view.result.value[2] =
                    [title |-> "RQ Settings", fields |-> <<<<"queue">>, <<"job_id">>>>]
             /\ view.result.value[3] =
                    [title |-> "Scheduling", fields |-> SchedulingFields(view.model)]
        ELSE view.result.raised = "ValueError"

C9_Witness ==
    /\ view.op = "get_list_display"
    /\ view.model = "RepeatableTask"
    /\ Len(view.result.value) = 13
    /\ view.result.value[8] = "scheduled_time"

\* C10 as stated: applying any of the four bulk action handlers a second
\* time to the same selection leaves storage and the external queue as they
\* were after the first application.
C10_AllIdempotent ==
    [][(last'.op \in BulkHandlers /\ last'.again) => store' = store]_vars

\* C10 as amended: applying disable_selected or enable_selected a second time
\* to the same selection leaves storage and the external queue as they were
\* after the first application (enqueue_job_now and migrate_selected repeat
\* their operation on every record each time they are applied).
C10_ToggleIdempotent ==
    [][(last'.op \in {"disable_selected", "enable_selected"} /\ last'.again)
            => store' = store]_vars

C10_Witness ==
    /\ last.op = "enable_selected"
    /\ last.again
    /\ last.sel # <<>>
    /\ \A id \in Selected(last) : enabled[id] /\ sched[id]
    /\ msg.level = WARNING

====
